---- MODULE Spec2Model ----
(***************************************************************************)
(* Model of the trial controller of the vc-benchmarks drivers              *)
(* (increasing_file_size.py, increasing_number_of_files.py) and of the     *)
(* scoped result recorders / verifiers of trialutil.py (CmdResult,         *)
(* CommitVerifier, RepoVerifier) over the repository adapters of vcs.py.   *)
(*                                                                         *)
(* The external tools are the environment: every adapter call draws its    *)
(* outcome (normal, nonzero exit, OS error, user interrupt) from a small   *)
(* set, and a commit command may or may not write a commit, may or may     *)
(* not include the expected file, and may or may not damage the store,     *)
(* independently of what its exit status says.                             *)
(*                                                                         *)
(* Two helpers are also modelled on their own, each under a specification  *)
(* that applies it to every input of a bounded set: is_file_in_commit of   *)
(* the adapters (SpecAdapter) and makedirs_quiet (SpecMakedirs).           *)
(***************************************************************************)
EXTENDS Integers, Sequences, FiniteSets, TLC

\* Number of trials of one sweep (the range of magnitudes times mag_steps).
MaxTrials == 2

\* Longest path string, in characters, given to makedirs_quiet.
MaxPathLen == 5

\* Longest object name, and largest dir_split and dir_depth, given to
\* object_dir_split.
MaxNameLen == 4
MaxSplit == 3
MaxDepth == 3

\* Largest file count of the dense range, and largest file size in bytes,
\* given to create_many_files.
MaxFiles == 102
MaxEachBytes == 2

\* Given to make_small_edit: the largest small file in bytes, the number
\* of KiB by which the largest file exceeds 256 KiB, and the number of
\* different byte strings of one length that are told apart.
MaxFileLen == 16
MaxOver == 2
MaxChunkId == 2

VARIABLES
    driver,     \* which benchmark driver runs: "file_size" or "number_of_files"
    vcs,        \* the adapter class chosen on the command line
    pc,         \* position of the controller: [at, step, idx]
    trial,      \* number of trials started so far
    ts,         \* the TrialStats record of the current trial
    exc,        \* the exception propagating at this point (NoExc when none)
    repodir,    \* the temporary repository directory of run_trial
    head,       \* the repository's last commit (0: no commit yet)
    withFile,   \* the commits whose tree contains the expected file
    sound,      \* whether the object store is structurally sound
    cr,         \* the CmdResult object of the current step
    cv,         \* the CommitVerifier object of the current step
    rv,         \* the RepoVerifier object of the current step
    cvlog,      \* what the last CommitVerifier.__exit__ saw and did
    rvlog,      \* what the last RepoVerifier.__exit__ saw and did
    audit,      \* per step of this trial: calls of check_repo_integrity, and
                \* whether an exception reached RepoVerifier.__exit__
    disk,       \* the trials whose repository directory exists on disk
    cleanups,   \* times the cleanup of the current trial has run
    rows,       \* rows printed so far
    rmtree_failed,  \* whether an rmtree of this sweep has raised
    util,       \* a helper called on its own: its arguments and its result
    args,       \* the command-line options of the driver
    cleaned_by  \* what the cleanup of the current trial called

vars == <<driver, vcs, pc, trial, ts, exc, repodir, head, withFile, sound,
          cr, cv, rv, cvlog, rvlog, audit, disk, cleanups, rows,
          rmtree_failed, util, args, cleaned_by>>

\* What a sweep is started with and never changes.
cfgVars == <<driver, vcs, util, args>>

repoVars == <<head, withFile, sound>>

objVars == <<cr, cv, rv>>

logVars == <<cvlog, rvlog, audit>>

sweepVars == <<trial, repodir, disk, cleanups, rows, rmtree_failed,
               cleaned_by>>

-----------------------------------------------------------------------------
\* Exceptions.  An exception value carries its class, the call that raised
\* it (so that two exceptions of one class stay distinguishable) and, for
\* CommitFailedButVerifiedException, the exception it wraps.

NoOrig == [type |-> "None", site |-> "None"]

NoExc == [type |-> "None", site |-> "None", original_exc |-> NoOrig]

Raise(type, site) == [type |-> type, site |-> site, original_exc |-> NoOrig]

CommitFailedButVerifiedException(original_exc) ==
    [type |-> "CommitFailedButVerifiedException",
     site |-> "CommitVerifier.__exit__",
     original_exc |-> [type |-> original_exc.type, site |-> original_exc.site]]

CommitFalsePositiveException ==
    Raise("CommitFalsePositiveException", "CommitVerifier.__exit__")

CorruptRepoException ==
    Raise("CorruptRepoException", "RepoVerifier.__exit__")

\* `except Exception` catches every class but the BaseException-only ones;
\* the only such class the drivers meet is KeyboardInterrupt.
IsException(e) == e.type \notin {"None", "KeyboardInterrupt"}

-----------------------------------------------------------------------------
\* Result vocabularies.

CmdResults == {"no_exec", "ok", "failed"}

VerificationResults == {"no_ver", "assumed", "verified", "bad", "ver_err"}

-----------------------------------------------------------------------------
\* Repository adapters.  Each call returns [exc, value]: the exception it
\* raises (NoExc when it returns) and the value it returns.

Returns(v) == [exc |-> NoExc, value |-> v]

Raises(type, site) == [exc |-> Raise(type, site), value |-> 0]

\* What can happen to one external command.
Faults == {"none", "cmd_failed", "os_error", "interrupt"}

\* None is 0.  GitRepo and BupRepo turn a failed rev-parse into None; HgRepo
\* lets the CalledProcessError of `hg id` through.
get_last_commit_id(v, h, fault) ==
    CASE fault = "none" -> Returns(h)
      [] fault = "cmd_failed" ->
            IF v = "hg" THEN Raises("CalledProcessError", "get_last_commit_id")
                        ELSE Returns(0)
      [] fault = "os_error" -> Raises("OSError", "get_last_commit_id")
      [] OTHER -> Raises("KeyboardInterrupt", "get_last_commit_id")

\* The listing is piped through grep: a nonzero exit (no match, or the
\* backend command producing nothing) is CalledProcessError, reported as False.
is_file_in_commit(commit_id, files, fault) ==
    CASE fault = "none" -> Returns(commit_id \in files)
      [] fault = "cmd_failed" -> Returns(FALSE)
      [] fault = "os_error" -> Raises("OSError", "is_file_in_commit")
      [] OTHER -> Raises("KeyboardInterrupt", "is_file_in_commit")

\* fsck / verify: CallFailedError is reported as False.
check_repo_integrity(s, fault) ==
    CASE fault = "none" -> Returns(s)
      [] fault = "cmd_failed" -> Returns(FALSE)
      [] fault = "os_error" -> Raises("OSError", "check_repo_integrity")
      [] OTHER -> Raises("KeyboardInterrupt", "check_repo_integrity")

-----------------------------------------------------------------------------
\* The drivers' step sequences and the context managers of each step,
\* outermost first.

Drivers == {"file_size", "number_of_files"}

VcsChoices == {"git", "hg", "bup"}

Steps(d) ==
    IF d = "file_size" THEN <<"c1", "c2", "gc">>
                       ELSE <<"c1", "stat1", "stat2", "c2">>

Managers(d, s) ==
    IF d = "file_size"
    THEN IF s = "gc"
         THEN <<"RepoVerifier", "CmdResult", "CpuUsageMeasurer", "StopWatch">>
         ELSE <<"RepoVerifier", "CommitVerifier", "CmdResult",
                "CpuUsageMeasurer", "StopWatch">>
    ELSE IF s \in {"stat1", "stat2"}
         THEN <<"CmdResult", "StopWatch">>
         ELSE <<"RepoVerifier", "CommitVerifier", "CmdResult", "StopWatch">>

\* The file the CommitVerifier is told to look for (None is "").
must_contain_file(d) == IF d = "file_size" THEN "large_file" ELSE ""

\* TrialStats.__init__: every command slot no_exec, every verification slot
\* no_ver, every time unset.
TrialStats(d) ==
    [s \in {Steps(d)[i] : i \in 1..Len(Steps(d))} |->
        [cmd |-> "no_exec", ver |-> "no_ver", repo |-> "no_ver",
         time |-> "None"]]

-----------------------------------------------------------------------------
\* Control positions.

At(a, step, idx) == [at |-> a, step |-> step, idx |-> idx]

StepName == Steps(driver)[pc.step]

CurManagers == Managers(driver, StepName)

CurManager == CurManagers[pc.idx]

\* After the __enter__ at pc.idx: on an exception the enclosing managers
\* exit, innermost first; with none enclosing it leaves the try block.
AfterEnter(e) ==
    IF e # NoExc
    THEN IF pc.idx > 1 THEN At("exit", pc.step, pc.idx - 1)
                       ELSE At("finally", 0, 0)
    ELSE IF pc.idx < Len(CurManagers)
         THEN At("enter", pc.step, pc.idx + 1)
         ELSE At("body", pc.step, 0)

\* After the __exit__ at pc.idx left e propagating (NoExc: nothing, or the
\* manager suppressed it).
AfterExit(e) ==
    IF pc.idx > 1 THEN At("exit", pc.step, pc.idx - 1)
    ELSE IF e # NoExc THEN At("finally", 0, 0)
    ELSE At("after", pc.step, 0)

FreshCmdResult == [result |-> "no_exec"]

FreshVerifier == [previous_commit |-> 0, result |-> "no_ver"]

NoCvLog == [called |-> FALSE, step |-> "None", exc_in |-> NoExc,
            previous_commit |-> 0, new_commit |-> Returns(0),
            checked_file |-> FALSE, in_commit |-> Returns(FALSE),
            result |-> "no_ver", exc_out |-> NoExc,
            next |-> At("None", 0, 0)]

NoRvLog == [called |-> FALSE, step |-> "None", exc_in |-> NoExc,
            checked |-> FALSE, integrity |-> Returns(FALSE),
            result |-> "no_ver", exc_out |-> NoExc,
            next |-> At("None", 0, 0)]

NoAudit(d) ==
    [s \in {Steps(d)[i] : i \in 1..Len(Steps(d))} |->
        [integrity_calls |-> 0, rv_exc |-> FALSE]]

\* parse_args: only increasing_file_size has --reformat-partition (None
\* when the option is not given).
Args(d) ==
    [reformat_partition :
        IF d = "file_size" THEN {"None", "device"} ELSE {"None"}]

\* No helper is called on its own.
NoCall == [fn |-> "None"]

\* The state of a driver before its sweep starts.
TrialInit ==
    /\ driver \in Drivers
    /\ vcs \in VcsChoices
    /\ pc = At("sweep", 0, 0)
    /\ trial = 0
    /\ ts = TrialStats(driver)
    /\ exc = NoExc
    /\ repodir = "unbound"
    /\ head = 0
    /\ withFile = {}
    /\ sound = TRUE
    /\ cr = FreshCmdResult
    /\ cv = FreshVerifier
    /\ rv = FreshVerifier
    /\ cvlog = NoCvLog
    /\ rvlog = NoRvLog
    /\ audit = NoAudit(driver)
    /\ disk = {}
    /\ cleanups = 0
    /\ rows = 0
    /\ rmtree_failed = FALSE
    /\ args \in Args(driver)
    /\ cleaned_by = "None"

Init == TrialInit /\ util = NoCall

-----------------------------------------------------------------------------
\* The sweep loop starts the next trial: a fresh TrialStats, then run_trial.
NextTrial ==
    /\ pc.at = "sweep"
    /\ trial < MaxTrials
    /\ trial' = trial + 1
    /\ ts' = TrialStats(driver)
    /\ pc' = At("setup", 0, 0)
    /\ exc' = NoExc
    /\ audit' = NoAudit(driver)
    /\ cleanups' = 0
    /\ cleaned_by' = "None"
    /\ UNCHANGED <<cfgVars, repodir, repoVars, objVars, cvlog, rvlog, disk,
                   rows, rmtree_failed>>

\* The range is exhausted: the process ends normally.
SweepDone ==
    /\ pc.at = "sweep"
    /\ trial = MaxTrials
    /\ pc' = At("done", 0, 0)
    /\ UNCHANGED <<cfgVars, trial, ts, exc, repodir, repoVars, objVars,
                   logVars, disk, cleanups, rows, rmtree_failed, cleaned_by>>

\* run_trial up to the first commit step: mkdtemp, the adapter, init_repo,
\* the creation of the test file(s).
SetupFaults == {"none", "mkdtemp_failed", "init_failed", "create_failed",
                "interrupt"}

Setup ==
    /\ pc.at = "setup"
    /\ \E fault \in SetupFaults :
          /\ exc' = CASE fault = "none" -> NoExc
                      [] fault = "mkdtemp_failed" -> Raise("OSError", "mkdtemp")
                      [] fault = "init_failed" ->
                            Raise("CallFailedError", "init_repo")
                      [] fault = "create_failed" ->
                            Raise("OSError", "create_file")
                      [] OTHER -> Raise("KeyboardInterrupt", "create_file")
          /\ IF fault = "mkdtemp_failed"
             THEN UNCHANGED <<repodir, disk, repoVars>>
             ELSE /\ repodir' = "bound"
                  /\ disk' = disk \cup {trial}
                  /\ head' = 0
                  /\ withFile' = {}
                  /\ sound' = TRUE
          /\ pc' = IF fault = "none" THEN At("enter", 1, 1)
                                     ELSE At("finally", 0, 0)
    /\ UNCHANGED <<cfgVars, trial, ts, objVars, logVars, cleanups, rows,
                   rmtree_failed, cleaned_by>>

-----------------------------------------------------------------------------
\* Scope entries.

\* Faulty variant of set_attr_or_key: the attribute of every step is set.
set_attr_or_key_AllSteps(obj, step, attr, val) == [s \in DOMAIN obj |-> [obj[s] EXCEPT ![attr] = val]]

\* Faulty variant of set_attr_or_key: every write lands in the attributes
\* of the second commit.
set_attr_or_key_OfC2(obj, step, attr, val) == [obj EXCEPT !["c2"][attr] = val]

\* Faulty variant of set_attr_or_key: the write is lost.
set_attr_or_key_Lost(obj, step, attr, val) == obj

\* set_attr_or_key on the TrialStats record.
set_attr_or_key(obj, step, attr, val) == [obj EXCEPT ![step][attr] = val]

RepoVerifier_enter ==
    /\ pc.at = "enter"
    /\ CurManager = "RepoVerifier"
    /\ \E fault \in Faults :
          LET r == get_last_commit_id(vcs, head, fault) IN
          /\ rv' = [previous_commit |-> r.value, result |-> "no_ver"]
          /\ exc' = r.exc
          /\ pc' = AfterEnter(r.exc)
    /\ UNCHANGED <<cfgVars, ts, repoVars, cr, cv, logVars, sweepVars>>

CommitVerifier_enter ==
    /\ pc.at = "enter"
    /\ CurManager = "CommitVerifier"
    /\ \E fault \in Faults :
          LET r == get_last_commit_id(vcs, head, fault) IN
          /\ cv' = [previous_commit |-> r.value, result |-> "no_ver"]
          /\ exc' = r.exc
          /\ pc' = AfterEnter(r.exc)
    /\ UNCHANGED <<cfgVars, ts, repoVars, cr, rv, logVars, sweepVars>>

CmdResult_enter ==
    /\ pc.at = "enter"
    /\ CurManager = "CmdResult"
    /\ cr' = FreshCmdResult
    /\ pc' = AfterEnter(NoExc)
    /\ UNCHANGED <<cfgVars, ts, exc, repoVars, cv, rv, logVars, sweepVars>>

\* read_cpu_stats greps /proc/stat through subprocess.check_output.
read_cpu_stats(fault) ==
    CASE fault = "none" -> NoExc
      [] fault = "cmd_failed" -> Raise("CalledProcessError", "read_cpu_stats")
      [] fault = "os_error" -> Raise("OSError", "read_cpu_stats")
      [] OTHER -> Raise("KeyboardInterrupt", "read_cpu_stats")

CpuUsageMeasurer_enter ==
    /\ pc.at = "enter"
    /\ CurManager = "CpuUsageMeasurer"
    /\ \E fault \in Faults :
          /\ exc' = read_cpu_stats(fault)
          /\ pc' = AfterEnter(read_cpu_stats(fault))
    /\ UNCHANGED <<cfgVars, ts, repoVars, objVars, logVars, sweepVars>>

StopWatch_enter ==
    /\ pc.at = "enter"
    /\ CurManager = "StopWatch"
    /\ pc' = AfterEnter(NoExc)
    /\ UNCHANGED <<cfgVars, ts, exc, repoVars, objVars, logVars, sweepVars>>

-----------------------------------------------------------------------------
\* The wrapped operations.

ToExit == At("exit", pc.step, Len(CurManagers))

CmdFaults == {"none", "cmd_failed", "interrupt"}

\* logcall: a nonzero exit is CallFailedError; Ctrl-C while waiting for the
\* child is KeyboardInterrupt.
logcall(site, fault) ==
    CASE fault = "none" -> NoExc
      [] fault = "cmd_failed" -> Raise("CallFailedError", site)
      [] OTHER -> Raise("KeyboardInterrupt", site)

\* start_tracking_file: `hg add` for HgRepo, nothing for GitRepo and BupRepo.
start_tracking_file(v, fault) ==
    IF v = "hg" THEN logcall("start_tracking_file", fault) ELSE NoExc

\* The body of a commit step: start_tracking_file (first commit only), then
\* commit_file.  What the tool writes (a commit or none, with the file or
\* without, damaging the store or not) is independent of how it exits.
CommitBody ==
    /\ pc.at = "body"
    /\ StepName \in {"c1", "c2"}
    /\ \E f1 \in CmdFaults :
          LET tracked == IF StepName = "c1" THEN start_tracking_file(vcs, f1)
                                            ELSE NoExc
          IN
          IF tracked # NoExc
          THEN /\ exc' = tracked
               /\ UNCHANGED repoVars
          ELSE \E new \in BOOLEAN, file \in BOOLEAN, damage \in BOOLEAN,
                  f2 \in CmdFaults :
                 /\ head' = IF new THEN head + 1 ELSE head
                 /\ withFile' = IF new /\ file THEN withFile \cup {head + 1}
                                               ELSE withFile
                 /\ sound' = (sound /\ ~damage)
                 /\ exc' = logcall("commit_file", f2)
    /\ pc' = ToExit
    /\ UNCHANGED <<cfgVars, ts, objVars, logVars, sweepVars>>

\* check_status: the working-tree diff, run for its cost only.
StatusBody ==
    /\ pc.at = "body"
    /\ StepName \in {"stat1", "stat2"}
    /\ \E fault \in CmdFaults : exc' = logcall("check_status", fault)
    /\ pc' = ToExit
    /\ UNCHANGED <<cfgVars, ts, repoVars, objVars, logVars, sweepVars>>

\* Faulty variant of garbage_collect: every backend runs a command.
garbage_collect_AlwaysRuns(v, fault) == logcall("garbage_collect", fault)

\* garbage_collect: `git gc` for GitRepo; HgRepo and BupRepo only log.
garbage_collect(v, fault) ==
    IF v = "git" THEN logcall("garbage_collect", fault) ELSE NoExc

GcBody ==
    /\ pc.at = "body"
    /\ StepName = "gc"
    /\ \E fault \in CmdFaults, damage \in BOOLEAN :
          /\ exc' = garbage_collect(vcs, fault)
          /\ sound' = IF vcs = "git" THEN (sound /\ ~damage) ELSE sound
    /\ pc' = ToExit
    /\ UNCHANGED <<cfgVars, ts, head, withFile, objVars, logVars, sweepVars>>

-----------------------------------------------------------------------------
\* Scope exits.

StopWatch_exit ==
    /\ pc.at = "exit"
    /\ CurManager = "StopWatch"
    /\ ts' = set_attr_or_key(ts, StepName, "time", "set")
    /\ pc' = AfterExit(exc)
    /\ UNCHANGED <<cfgVars, exc, repoVars, objVars, logVars, sweepVars>>

\* An exception of read_cpu_stats replaces the one that was propagating.
CpuUsageMeasurer_exit ==
    /\ pc.at = "exit"
    /\ CurManager = "CpuUsageMeasurer"
    /\ \E fault \in Faults :
          LET e == IF read_cpu_stats(fault) # NoExc THEN read_cpu_stats(fault)
                                                    ELSE exc
          IN /\ exc' = e
             /\ pc' = AfterExit(e)
    /\ UNCHANGED <<cfgVars, ts, repoVars, objVars, logVars, sweepVars>>

\* Faulty variant of CmdResult_result: the exception is not looked at.
CmdResult_result_AlwaysOk(exc_value) == "ok"

CmdResult_result(exc_value) == IF exc_value # NoExc THEN "failed" ELSE "ok"

CmdResult_exit ==
    /\ pc.at = "exit"
    /\ CurManager = "CmdResult"
    /\ cr' = [result |-> CmdResult_result(exc)]
    /\ ts' = set_attr_or_key(ts, StepName, "cmd", CmdResult_result(exc))
    /\ pc' = AfterExit(exc)
    /\ UNCHANGED <<cfgVars, exc, repoVars, cv, rv, logVars, sweepVars>>

\* Faulty variants of CommitVerifier_result, used to test the properties.
\* (a) an unchanged id counts as "no new commit" only when it is not None
CommitVerifier_result_NoneIsNew(previous_commit, file, new_commit, in_commit) ==
    LET raised == IF new_commit.exc # NoExc THEN new_commit.exc
                  ELSE IF new_commit.value = previous_commit THEN NoExc
                  ELSE IF file # "" THEN in_commit.exc
                  ELSE NoExc
    IN
    IF raised # NoExc
    THEN IF IsException(raised) THEN Returns("ver_err")
                                ELSE [exc |-> raised, value |-> "no_ver"]
    ELSE IF new_commit.value = previous_commit
    THEN Returns(IF previous_commit = 0 THEN "verified" ELSE "bad")
    ELSE IF file # "" /\ ~in_commit.value THEN Returns("bad")
    ELSE Returns("verified")

\* (b) the `not` of the file test is lost
CommitVerifier_result_InvertedFileCheck(previous_commit, file, new_commit, in_commit) ==
    LET raised == IF new_commit.exc # NoExc THEN new_commit.exc
                  ELSE IF new_commit.value = previous_commit THEN NoExc
                  ELSE IF file # "" THEN in_commit.exc
                  ELSE NoExc
    IN
    IF raised # NoExc
    THEN IF IsException(raised) THEN Returns("ver_err")
                                ELSE [exc |-> raised, value |-> "no_ver"]
    ELSE IF new_commit.value = previous_commit THEN Returns("bad")
    ELSE IF file # "" /\ in_commit.value THEN Returns("bad")
    ELSE Returns("verified")

\* (c) the result of the file test is ignored
CommitVerifier_result_IgnoresFileCheck(previous_commit, file, new_commit, in_commit) ==
    LET raised == IF new_commit.exc # NoExc THEN new_commit.exc
                  ELSE IF new_commit.value = previous_commit THEN NoExc
                  ELSE IF file # "" THEN in_commit.exc
                  ELSE NoExc
    IN
    IF raised # NoExc
    THEN IF IsException(raised) THEN Returns("ver_err")
                                ELSE [exc |-> raised, value |-> "no_ver"]
    ELSE IF new_commit.value = previous_commit THEN Returns("bad")
    ELSE Returns("verified")

\* (d) an error of the verification itself is recorded as 'bad'
CommitVerifier_result_ErrorIsBad(previous_commit, file, new_commit, in_commit) ==
    LET raised == IF new_commit.exc # NoExc THEN new_commit.exc
                  ELSE IF new_commit.value = previous_commit THEN NoExc
                  ELSE IF file # "" THEN in_commit.exc
                  ELSE NoExc
    IN
    IF raised # NoExc
    THEN IF IsException(raised) THEN Returns("bad")
                                ELSE [exc |-> raised, value |-> "no_ver"]
    ELSE IF new_commit.value = previous_commit THEN Returns("bad")
    ELSE IF file # "" /\ ~in_commit.value THEN Returns("bad")
    ELSE Returns("verified")

\* The try block of CommitVerifier.__exit__ and its except clause: the
\* classification, or the exception that `except Exception` does not catch.
CommitVerifier_result(previous_commit, file, new_commit, in_commit) ==
    LET raised == IF new_commit.exc # NoExc THEN new_commit.exc
                  ELSE IF new_commit.value = previous_commit THEN NoExc
                  ELSE IF file # "" THEN in_commit.exc
                  ELSE NoExc
    IN
    IF raised # NoExc
    THEN IF IsException(raised) THEN Returns("ver_err")
                                ELSE [exc |-> raised, value |-> "no_ver"]
    ELSE IF new_commit.value = previous_commit THEN Returns("bad")
    ELSE IF file # "" /\ ~in_commit.value THEN Returns("bad")
    ELSE Returns("verified")

\* Faulty variants of CommitVerifier_raise.
\* (a) a verified commit does not replace the command's exception
CommitVerifier_raise_NoRescue(exc_value, result) ==
    IF exc_value = NoExc /\ result = "bad"
    THEN CommitFalsePositiveException
    ELSE exc_value

\* (b) 'bad' raises the false-positive exception whether or not the command
\* raised
CommitVerifier_raise_BadAlwaysFalsePositive(exc_value, result) ==
    IF exc_value # NoExc /\ result = "verified"
    THEN CommitFailedButVerifiedException(exc_value)
    ELSE IF result = "bad"
    THEN CommitFalsePositiveException
    ELSE exc_value

\* (c) the raise of CommitFalsePositiveException is lost
CommitVerifier_raise_NoFalsePositive(exc_value, result) ==
    IF exc_value # NoExc /\ result = "verified"
    THEN CommitFailedButVerifiedException(exc_value)
    ELSE exc_value

\* The tail of CommitVerifier.__exit__: what leaves the scope.
CommitVerifier_raise(exc_value, result) ==
    IF exc_value # NoExc /\ result = "verified"
    THEN CommitFailedButVerifiedException(exc_value)
    ELSE IF exc_value = NoExc /\ result = "bad"
    THEN CommitFalsePositiveException
    ELSE exc_value

CommitVerifier_exit ==
    /\ pc.at = "exit"
    /\ CurManager = "CommitVerifier"
    /\ \E f1 \in Faults, f2 \in Faults :
          LET new_commit == get_last_commit_id(vcs, head, f1)
              checked == /\ new_commit.exc = NoExc
                         /\ new_commit.value # cv.previous_commit
                         /\ must_contain_file(driver) # ""
              in_commit == IF checked
                           THEN is_file_in_commit(new_commit.value, withFile, f2)
                           ELSE Returns(FALSE)
              r == CommitVerifier_result(cv.previous_commit,
                        must_contain_file(driver), new_commit, in_commit)
              out == IF r.exc # NoExc THEN r.exc
                     ELSE CommitVerifier_raise(exc, r.value)
          IN
          /\ cv' = IF r.exc # NoExc THEN cv
                   ELSE [cv EXCEPT !.result = r.value]
          /\ ts' = IF r.exc # NoExc THEN ts
                   ELSE set_attr_or_key(ts, StepName, "ver", r.value)
          /\ exc' = out
          /\ cvlog' = [called |-> TRUE, step |-> StepName, exc_in |-> exc,
                       previous_commit |-> cv.previous_commit,
                       new_commit |-> new_commit, checked_file |-> checked,
                       in_commit |-> in_commit, result |-> cv'.result,
                       exc_out |-> out, next |-> AfterExit(out)]
          /\ pc' = AfterExit(out)
    /\ UNCHANGED <<cfgVars, repoVars, cr, rv, rvlog, audit, sweepVars>>

\* Faulty variant of RepoVerifier_result: the repository is assumed intact
\* whatever reaches the scope exit.
RepoVerifier_result_AlwaysAssumed(exc_value, integrity) == Returns("assumed")

\* The classification of RepoVerifier.__exit__, or the exception that its
\* `except Exception` does not catch.
RepoVerifier_result(exc_value, integrity) ==
    IF exc_value = NoExc THEN Returns("assumed")
    ELSE IF integrity.exc = NoExc
    THEN Returns(IF integrity.value THEN "verified" ELSE "bad")
    ELSE IF IsException(integrity.exc) THEN Returns("ver_err")
    ELSE [exc |-> integrity.exc, value |-> "no_ver"]

\* Faulty variants of RepoVerifier_raise.
\* (a) the `return True` is lost
RepoVerifier_raise_NoSuppress(exc_value, result) ==
    IF exc_value.type = "CommitFailedButVerifiedException"
    THEN IF result = "bad" THEN CorruptRepoException
         ELSE exc_value
    ELSE exc_value

\* (b) the escalation to CorruptRepoException is lost
RepoVerifier_raise_NoEscalate(exc_value, result) ==
    IF exc_value.type = "CommitFailedButVerifiedException"
    THEN IF result = "verified" THEN NoExc
         ELSE exc_value
    ELSE exc_value

\* (c) a 'bad' repository escalates whatever the incoming exception is
RepoVerifier_raise_AnyBadIsCorrupt(exc_value, result) ==
    IF exc_value # NoExc /\ result = "bad" THEN CorruptRepoException
    ELSE IF exc_value.type = "CommitFailedButVerifiedException"
            /\ result = "verified" THEN NoExc
    ELSE exc_value

\* (d) the rescue is granted without a conclusive integrity check
RepoVerifier_raise_SuppressUnchecked(exc_value, result) ==
    IF exc_value.type = "CommitFailedButVerifiedException"
    THEN IF result = "bad" THEN CorruptRepoException
         ELSE NoExc
    ELSE exc_value

\* The tail of RepoVerifier.__exit__: what leaves the scope (NoExc when it
\* returns True and so suppresses the exception).
RepoVerifier_raise(exc_value, result) ==
    IF exc_value.type = "CommitFailedButVerifiedException"
    THEN IF result = "verified" THEN NoExc
         ELSE IF result = "bad" THEN CorruptRepoException
         ELSE exc_value
    ELSE exc_value

\* Faulty variant of RepoVerifier_checks: the check runs on every exit.
RepoVerifier_checks_Always(exc_value) == TRUE

\* Whether RepoVerifier.__exit__ runs the integrity check at all.
RepoVerifier_checks(exc_value) == exc_value # NoExc

RepoVerifier_exit ==
    /\ pc.at = "exit"
    /\ CurManager = "RepoVerifier"
    /\ \E fault \in Faults :
          LET checked == RepoVerifier_checks(exc)
              integrity == IF checked THEN check_repo_integrity(sound, fault)
                                      ELSE Returns(FALSE)
              r == RepoVerifier_result(exc, integrity)
              out == IF r.exc # NoExc THEN r.exc
                     ELSE RepoVerifier_raise(exc, r.value)
          IN
          /\ rv' = IF r.exc # NoExc THEN rv
                   ELSE [rv EXCEPT !.result = r.value]
          /\ ts' = IF r.exc # NoExc THEN ts
                   ELSE set_attr_or_key(ts, StepName, "repo", r.value)
          /\ exc' = out
          /\ audit' = [audit EXCEPT ![StepName] =
                          [integrity_calls |->
                              @.integrity_calls + (IF checked THEN 1 ELSE 0),
                           rv_exc |-> (@.rv_exc \/ exc # NoExc)]]
          /\ rvlog' = [called |-> TRUE, step |-> StepName, exc_in |-> exc,
                       checked |-> checked, integrity |-> integrity,
                       result |-> rv'.result, exc_out |-> out,
                       next |-> AfterExit(out)]
          /\ pc' = AfterExit(out)
    /\ UNCHANGED <<cfgVars, repoVars, cr, cv, cvlog, sweepVars>>

-----------------------------------------------------------------------------
\* The rest of run_trial and the sweep's handlers.

\* Whether statements follow the with block of step s before the next one:
\* check_total_size after a commit or gc step (and make_small_edit after
\* the first commit of file_size), update_many_files after stat1.
HasAfter(d, s) == ~(d = "number_of_files" /\ s = "stat2")

AfterFaults == {"none", "error", "interrupt"}

AfterWith ==
    /\ pc.at = "after"
    /\ \E fault \in AfterFaults :
          /\ fault # "none" => HasAfter(driver, StepName)
          /\ exc' = CASE fault = "none" -> NoExc
                      [] fault = "error" ->
                            IF StepName = "stat1"
                            THEN Raise("OSError", "update_many_files")
                            ELSE Raise("CalledProcessError", "check_total_size")
                      [] OTHER -> Raise("KeyboardInterrupt", "after_" \o StepName)
          /\ pc' = IF fault = "none" /\ pc.step < Len(Steps(driver))
                   THEN At("enter", pc.step + 1, 1)
                   ELSE At("finally", 0, 0)
    /\ UNCHANGED <<cfgVars, ts, repoVars, objVars, logVars, sweepVars>>

CleanupFaults == {"none", "os_error", "interrupt"}

\* What the parameter reformat_partition of run_trial is bound to.  The
\* sweep loop calls run_trial(result, vcsclass, data_gen=..., tmpdir=...)
\* and so leaves it at its default; increasing_number_of_files has no such
\* parameter and always removes the tree.
reformat_partition(d, a) == "None"

\* Faulty variant of rmtree: it returns without deleting.
rmtree_Keeps(d, path, fault) == d

\* shutil.rmtree(repodir): what is on disk afterwards.  The tree is gone
\* when it returns; when it raises, the directory is still there.
rmtree(d, path, fault) == IF fault = "none" THEN d \ {path} ELSE d

\* The finally clause of run_trial, and the return from run_trial: it calls
\* reformat_device when its parameter reformat_partition is set, and
\* shutil.rmtree(repodir) otherwise.  An exception raised here replaces
\* the one that was propagating; repodir is unbound when mkdtemp itself
\* failed.  On return the locals of run_trial
\* (repodir, the adapter, the context managers) are gone: the next trial
\* makes its own, so they are put back to their initial values here.
Cleanup ==
    /\ pc.at = "finally"
    /\ cleanups' = cleanups + 1
    /\ IF reformat_partition(driver, args) # "None"
       THEN \E fault \in CmdFaults :
              /\ exc' = IF fault = "none" THEN exc
                        ELSE logcall("reformat_device", fault)
              /\ disk' = IF fault = "none" THEN {} ELSE disk
              /\ cleaned_by' = "reformat_device"
              /\ UNCHANGED rmtree_failed
       ELSE IF repodir = "unbound"
       THEN /\ exc' = Raise("UnboundLocalError", "cleanup")
            /\ cleaned_by' = "None"
            /\ UNCHANGED <<disk, rmtree_failed>>
       ELSE \E fault \in CleanupFaults :
              /\ exc' = CASE fault = "none" -> exc
                          [] fault = "os_error" -> Raise("OSError", "rmtree")
                          [] OTHER -> Raise("KeyboardInterrupt", "rmtree")
              /\ disk' = rmtree(disk, trial, fault)
              /\ rmtree_failed' = (rmtree_failed \/ fault # "none")
              /\ cleaned_by' = "rmtree"
    /\ pc' = At("handlers", 0, 0)
    /\ repodir' = "unbound"
    /\ head' = 0
    /\ withFile' = {}
    /\ sound' = TRUE
    /\ cr' = FreshCmdResult
    /\ cv' = FreshVerifier
    /\ rv' = FreshVerifier
    /\ cvlog' = NoCvLog
    /\ rvlog' = NoRvLog
    /\ UNCHANGED <<cfgVars, trial, ts, audit, rows>>

\* Faulty variant of Reraised: every exception ends the sweep.
Reraised_Any(e) == e # NoExc

\* Whether the except clauses of the sweep loop re-raise e: `except
\* KeyboardInterrupt` does, `except Exception` only logs it.
Reraised(e) == e.type = "KeyboardInterrupt"

\* The except / finally clauses around run_trial in the sweep loop: the row
\* is printed in every case; KeyboardInterrupt is re-raised and ends the
\* process, any other exception is logged and the loop goes on.
Handlers ==
    /\ pc.at = "handlers"
    /\ rows' = rows + 1
    /\ IF Reraised(exc)
       THEN /\ pc' = At("done", 0, 0)
            /\ UNCHANGED exc
       ELSE /\ pc' = At("sweep", 0, 0)
            /\ exc' = NoExc
    /\ UNCHANGED <<cfgVars, trial, ts, repodir, repoVars, objVars, logVars,
                   disk, cleanups, rmtree_failed, cleaned_by>>

Next ==
    \/ NextTrial
    \/ SweepDone
    \/ Setup
    \/ RepoVerifier_enter
    \/ CommitVerifier_enter
    \/ CmdResult_enter
    \/ CpuUsageMeasurer_enter
    \/ StopWatch_enter
    \/ CommitBody
    \/ StatusBody
    \/ GcBody
    \/ StopWatch_exit
    \/ CpuUsageMeasurer_exit
    \/ CmdResult_exit
    \/ CommitVerifier_exit
    \/ RepoVerifier_exit
    \/ AfterWith
    \/ Cleanup
    \/ Handlers

Spec == Init /\ [][Next]_vars

-----------------------------------------------------------------------------
\* is_file_in_commit of the three adapters, command by command: the backend
\* lists the tree of the commit, the listing is piped through grep, and
\* check_output sees the exit status of the pipe, which is grep's.

\* The variables of a sweep, which a helper called on its own leaves alone.
trialVars == <<driver, vcs, pc, trial, ts, exc, repodir, head, withFile,
               sound, cr, cv, rv, cvlog, rvlog, audit, disk, cleanups, rows,
               rmtree_failed, args, cleaned_by>>

\* Paths are sequences of characters; these are the ones tried, as paths
\* of the tree (relative to the working directory) and as file names asked
\* for.
Paths == {<<"f">>, <<"g">>, <<".">>, <<"f", "g">>, <<"g", "/", "f">>}

\* The working directory, under whose full path `bup save` stores a file.
workdir == <<"d">>

\* grep's basic regular expression for a file name put into the pattern
\* unescaped: `.` matches any one character, the others match themselves.
Match(pattern, text) ==
    /\ Len(pattern) = Len(text)
    /\ \A i \in 1..Len(pattern) : pattern[i] = "." \/ pattern[i] = text[i]

\* The parts of a path that follow one of its slashes.
SlashSuffixes(path) ==
    {SubSeq(path, k + 1, Len(path)) :
        k \in {j \in 1..Len(path) : path[j] = "/"}}

\* The paths the backend command prints for a commit with the given tree:
\* `git ls-tree -r` and `hg manifest` print each path relative to the root
\* of the tree; the tree of a bup save holds the full path of the file.
Listing(v, tree) ==
    IF v = "bup" THEN {workdir \o <<"/">> \o path : path \in tree}
                 ELSE tree

\* Whether grep selects the line of a listed path: '\t%s$' (git) and '^%s$'
\* (hg) anchor the name at both ends of the path, '/%s$' (bup) at a slash
\* and the end.
GrepSelects(v, filename, path) ==
    IF v = "bup" THEN \E s \in SlashSuffixes(path) : Match(filename, s)
                 ELSE Match(filename, path)

\* check_output of `<list the tree> | grep <pattern>`: [exc, value] with the
\* selected lines as value.  The backend command prints nothing when it
\* fails or the commit id names no commit; the exit status of the pipe is
\* that of grep, nonzero when it selects no line.
check_output_grep(v, commit_exists, tree, filename, fault) ==
    LET printed == IF fault = "cmd_failed" \/ ~commit_exists
                   THEN {}
                   ELSE Listing(v, tree)
        selected == {path \in printed : GrepSelects(v, filename, path)}
    IN
    CASE fault = "os_error" -> [exc |-> Raise("OSError", "is_file_in_commit"),
                                value |-> {}]
      [] fault = "interrupt" ->
            [exc |-> Raise("KeyboardInterrupt", "is_file_in_commit"),
             value |-> {}]
      [] OTHER ->
            IF selected = {}
            THEN [exc |-> Raise("CalledProcessError", "is_file_in_commit"),
                  value |-> {}]
            ELSE [exc |-> NoExc, value |-> selected]

\* GitRepo / HgRepo / BupRepo.is_file_in_commit: bool(output), and False on
\* CalledProcessError.
Repo_is_file_in_commit(v, commit_exists, tree, filename, fault) ==
    LET r == check_output_grep(v, commit_exists, tree, filename, fault) IN
    IF r.exc = NoExc THEN Returns(r.value # {})
    ELSE IF r.exc.type = "CalledProcessError" THEN Returns(FALSE)
    ELSE [exc |-> r.exc, value |-> FALSE]

\* The calls tried: a repository in which the commit id asked for names a
\* commit or not, the tree of that commit, the file name asked for, and what
\* happens to the backend command.
InitAdapter ==
    /\ TrialInit
    /\ util \in [fn : {"is_file_in_commit"}, commit_exists : BOOLEAN,
                  tree : SUBSET Paths, filename : Paths, fault : Faults,
                  called : {FALSE}, out : {Returns(FALSE)}]

Call_is_file_in_commit ==
    /\ util.fn = "is_file_in_commit"
    /\ ~util.called
    /\ util' = [util EXCEPT
                    !.called = TRUE,
                    !.out = Repo_is_file_in_commit(vcs, util.commit_exists,
                                util.tree, util.filename, util.fault)]
    /\ UNCHANGED trialVars

NextAdapter == Call_is_file_in_commit

SpecAdapter == InitAdapter /\ [][NextAdapter]_vars

-----------------------------------------------------------------------------
\* makedirs_quiet over a file system.  A path string is a sequence of
\* characters; a directory is [abs, comps]: whether it hangs under the root
\* or under the current directory, and its names from there.

PathChars == {"/", "a", "b"}

PathStrings == UNION {[1..n -> PathChars] : n \in 0..MaxPathLen}

\* string.split(s, "/"): the pieces between the slashes, empty ones kept.
RECURSIVE split(_)
split(s) ==
    IF \A k \in 1..Len(s) : s[k] # "/"
    THEN <<s>>
    ELSE LET k == CHOOSE j \in 1..Len(s) :
                     s[j] = "/" /\ \A h \in 1..(j - 1) : s[h] # "/"
         IN <<SubSeq(s, 1, k - 1)>> \o split(SubSeq(s, k + 1, Len(s)))

\* string.join(segments, "/").
RECURSIVE join(_)
join(segments) ==
    IF Len(segments) = 0 THEN <<>>
    ELSE IF Len(segments) = 1 THEN segments[1]
    ELSE segments[1] \o <<"/">> \o join(Tail(segments))

NonEmpty(segment) == segment # <<>>

\* The directory a nonempty path string names: repeated and trailing
\* slashes count for nothing.
Resolve(s) ==
    [abs |-> s[1] = "/", comps |-> SelectSeq(split(s), NonEmpty)]

Parent(d) == [d EXCEPT !.comps = SubSeq(d.comps, 1, Len(d.comps) - 1)]

\* The root and the current directory always exist; fs holds the others.
Exists(fs, d) == d.comps = <<>> \/ d \in fs

\* os.path.isdir: False for the empty string.
isdir(fs, s) == s # <<>> /\ Exists(fs, Resolve(s))

\* os.mkdir: [exc, fs].  It raises OSError for the empty string, for a
\* directory that exists, and when the parent is missing.
mkdir(fs, s) ==
    IF s = <<>> \/ Exists(fs, Resolve(s)) \/ ~Exists(fs, Parent(Resolve(s)))
    THEN [exc |-> Raise("OSError", "mkdir"), fs |-> fs]
    ELSE [exc |-> NoExc, fs |-> fs \cup {Resolve(s)}]

\* The loop `for i in range(2, len(segments))` from i on: [exc, value, fs]
\* with value the count dirsmade.
RECURSIVE makedirs_loop(_, _, _, _)
makedirs_loop(segments, i, fs, dirsmade) ==
    IF i >= Len(segments)
    THEN [exc |-> NoExc, value |-> dirsmade, fs |-> fs]
    ELSE LET buildpath == join(SubSeq(segments, 1, i)) IN
         IF isdir(fs, buildpath)
         THEN makedirs_loop(segments, i + 1, fs, dirsmade)
         ELSE IF mkdir(fs, buildpath).exc # NoExc
         THEN [exc |-> mkdir(fs, buildpath).exc, value |-> 0,
               fs |-> mkdir(fs, buildpath).fs]
         ELSE makedirs_loop(segments, i + 1, mkdir(fs, buildpath).fs,
                            dirsmade + 1)

makedirs_quiet(fs, path) == makedirs_loop(split(path), 2, fs, 0)

\* The file systems tried: what exists of /a, /a/b and a before the call.
SomeDirs ==
    {[abs |-> TRUE, comps |-> << <<"a">> >>],
     [abs |-> TRUE, comps |-> << <<"a">>, <<"b">> >>],
     [abs |-> FALSE, comps |-> << <<"a">> >>]}

FileSystems == {fs \in SUBSET SomeDirs : \A d \in fs : Exists(fs, Parent(d))}

NotCalled == [exc |-> NoExc, value |-> 0, fs |-> {}]

InitMakedirs ==
    /\ TrialInit
    /\ driver = "file_size"
    /\ vcs = "git"
    /\ util \in [fn : {"makedirs_quiet"}, path : PathStrings \ {<<>>},
                  fs : FileSystems, calls : {0}, first : {NotCalled},
                  second : {NotCalled}]

\* makedirs_quiet(path) on the file system as it was found.
Call_makedirs_quiet ==
    /\ util.fn = "makedirs_quiet"
    /\ util.calls = 0
    /\ util' = [util EXCEPT !.calls = 1,
                            !.first = makedirs_quiet(util.fs, util.path)]
    /\ UNCHANGED trialVars

\* makedirs_quiet(path) once more, on the file system the first call left.
Call_makedirs_quiet_again ==
    /\ util.fn = "makedirs_quiet"
    /\ util.calls = 1
    /\ util' = [util EXCEPT !.calls = 2,
                            !.second = makedirs_quiet(util.first.fs, util.path)]
    /\ UNCHANGED trialVars

NextMakedirs ==
    \/ Call_makedirs_quiet
    \/ Call_makedirs_quiet_again

SpecMakedirs == InitMakedirs /\ [][NextMakedirs]_vars

-----------------------------------------------------------------------------
\* Properties of CommitVerifier.  They are stated on cvlog, the record of
\* the last CommitVerifier.__exit__ of the trial: the exception that reached
\* it, what its queries returned, the result it stored, what left the scope.

\* get_last_commit_id() returned at scope exit, with an id other than / equal
\* to the one captured on entry.
CvNewId ==
    /\ cvlog.called
    /\ cvlog.new_commit.exc = NoExc
    /\ cvlog.new_commit.value # cvlog.previous_commit

CvSameId ==
    /\ cvlog.called
    /\ cvlog.new_commit.exc = NoExc
    /\ cvlog.new_commit.value = cvlog.previous_commit

\* is_file_in_commit(new id, expected file) was called and returned b.
CvFileCheck(b) ==
    /\ cvlog.checked_file
    /\ cvlog.in_commit.exc = NoExc
    /\ cvlog.in_commit.value = b

\* The outcome r is the verifier's result and is in the step's slot.
CvRecorded(r) == cvlog.result = r /\ ts[cvlog.step].ver = r

\* C1: when the wrapped operation raised E and the scope exit sees a new
\* commit id and (no expected file is configured or the file is in the new
\* commit), CommitFailedButVerifiedException carrying E leaves the scope
\* instead of E, and 'verified' is recorded.
C1_FalseNegativeRescue ==
    (/\ CvNewId
     /\ cvlog.exc_in # NoExc
     /\ (must_contain_file(driver) = "" \/ CvFileCheck(TRUE)))
    => /\ cvlog.exc_out = CommitFailedButVerifiedException(cvlog.exc_in)
       /\ cvlog.exc_out # cvlog.exc_in
       /\ CvRecorded("verified")

C1_Witness ==
    /\ CvNewId
    /\ cvlog.exc_in = Raise("CallFailedError", "commit_file")
    /\ CvFileCheck(TRUE)

\* C2: when the wrapped operation did not raise and the commit id at scope
\* exit equals the one captured on entry (both None included),
\* CommitFalsePositiveException is raised and 'bad' is recorded.
C2_FalsePositive ==
    (CvSameId /\ cvlog.exc_in = NoExc)
    => /\ cvlog.exc_out = CommitFalsePositiveException
       /\ CvRecorded("bad")

C2_Witness ==
    /\ CvSameId
    /\ cvlog.exc_in = NoExc
    /\ cvlog.previous_commit = 0

\* C3: when the wrapped operation did not raise and the scope exit sees a
\* new commit id whose tree holds the expected file, 'verified' is recorded
\* and no exception leaves the scope.
C3_ConfirmedSuccess ==
    (CvNewId /\ cvlog.exc_in = NoExc /\ CvFileCheck(TRUE))
    => /\ CvRecorded("verified")
       /\ cvlog.exc_out = NoExc

C3_Witness ==
    /\ CvNewId
    /\ cvlog.exc_in = NoExc
    /\ CvFileCheck(TRUE)
    /\ cvlog.step = "c2"

\* C4: when the wrapped operation raised E and the commit id at scope exit
\* equals the one captured on entry, E itself leaves the scope and 'bad' is
\* recorded.
C4_GenuineFailure ==
    (CvSameId /\ cvlog.exc_in # NoExc)
    => /\ cvlog.exc_out = cvlog.exc_in
       /\ CvRecorded("bad")

C4_Witness ==
    /\ CvSameId
    /\ cvlog.exc_in = Raise("CallFailedError", "commit_file")
    /\ cvlog.previous_commit = 1

\* C5: when a new commit id appears but is_file_in_commit(new id, expected
\* file) returns false, 'bad' is recorded; an exception E of the wrapped
\* operation leaves unchanged, and without one CommitFalsePositiveException
\* is raised.
C5_PartialCommit ==
    (CvNewId /\ CvFileCheck(FALSE))
    => /\ CvRecorded("bad")
       /\ cvlog.exc_in # NoExc => cvlog.exc_out = cvlog.exc_in
       /\ cvlog.exc_in = NoExc => cvlog.exc_out = CommitFalsePositiveException

C5_Witness ==
    /\ CvNewId
    /\ CvFileCheck(FALSE)
    /\ cvlog.new_commit.value \notin withFile
    /\ cvlog.new_commit.value = head
    /\ cvlog.exc_in = NoExc

\* A query of the scope-exit verification raised; the exception it raised.
CvVerificationRaised ==
    /\ cvlog.called
    /\ \/ cvlog.new_commit.exc # NoExc
       \/ cvlog.checked_file /\ cvlog.in_commit.exc # NoExc

CvVerificationExc ==
    IF cvlog.new_commit.exc # NoExc THEN cvlog.new_commit.exc
                                    ELSE cvlog.in_commit.exc

\* C6 as stated: whenever get_last_commit_id() or is_file_in_commit() raises
\* during the scope-exit verification, 'ver_err' is recorded, the
\* verification error does not escape and what the wrapped operation raised
\* (if anything) leaves unchanged.
C6_AsStated ==
    CvVerificationRaised
    => /\ CvRecorded("ver_err")
       /\ cvlog.exc_out = cvlog.exc_in

\* C6 amended: the same, for every exception of class Exception raised by
\* the queries.  (A KeyboardInterrupt raised by a query is not caught by
\* `except Exception`: it leaves the scope and nothing is recorded.)
C6_InconclusiveVerification ==
    (CvVerificationRaised /\ IsException(CvVerificationExc))
    => /\ CvRecorded("ver_err")
       /\ cvlog.exc_out = cvlog.exc_in

C6_Witness ==
    /\ cvlog.called
    /\ cvlog.checked_file
    /\ cvlog.in_commit.exc = Raise("OSError", "is_file_in_commit")
    /\ cvlog.exc_in = Raise("CallFailedError", "commit_file")

-----------------------------------------------------------------------------
\* Properties of RepoVerifier, stated on rvlog, the record of the last
\* RepoVerifier.__exit__ of the trial.

\* check_repo_integrity() was called and returned b.
RvIntegrity(b) ==
    /\ rvlog.checked
    /\ rvlog.integrity.exc = NoExc
    /\ rvlog.integrity.value = b

RvRecorded(r) == rvlog.result = r /\ ts[rvlog.step].repo = r

RvCommitFailedButVerified ==
    /\ rvlog.called
    /\ rvlog.exc_in.type = "CommitFailedButVerifiedException"

\* C7: when CommitFailedButVerifiedException reaches the scope exit and
\* check_repo_integrity() returns true, nothing leaves the scope,
\* 'verified' is recorded and control goes to the statement after the with
\* block of that step.
C7_Suppression ==
    (RvCommitFailedButVerified /\ RvIntegrity(TRUE))
    => /\ rvlog.exc_out = NoExc
       /\ RvRecorded("verified")
       /\ rvlog.next.at = "after"
       /\ Steps(driver)[rvlog.next.step] = rvlog.step

C7_Witness ==
    /\ RvCommitFailedButVerified
    /\ RvIntegrity(TRUE)
    /\ pc.at = "enter"
    /\ StepName = "c2"
    /\ rvlog.step = "c1"

\* C8: when CommitFailedButVerifiedException reaches the scope exit and
\* check_repo_integrity() returns false, CorruptRepoException leaves the
\* scope in its place and 'bad' is recorded.
C8_Escalation ==
    (RvCommitFailedButVerified /\ RvIntegrity(FALSE))
    => /\ rvlog.exc_out = CorruptRepoException
       /\ RvRecorded("bad")

C8_Witness ==
    /\ RvCommitFailedButVerified
    /\ RvIntegrity(FALSE)
    /\ pc.at = "finally"

\* C9: when no exception reaches the scope exit, 'assumed' is recorded and
\* check_repo_integrity() is not called; in a whole trial the check runs
\* only in steps where an exception reached the RepoVerifier, at most once
\* per step.
C9_HappyPathSkipsIntegrityCheck ==
    /\ (rvlog.called /\ rvlog.exc_in = NoExc)
       => (RvRecorded("assumed") /\ ~rvlog.checked)
    /\ \A s \in DOMAIN audit :
          /\ audit[s].integrity_calls <= 1
          /\ audit[s].integrity_calls > 0 => audit[s].rv_exc

C9_Witness ==
    /\ rvlog.called
    /\ rvlog.step = "c2"
    /\ rvlog.exc_in # NoExc
    /\ ts["c1"].repo = "assumed"
    /\ audit["c1"].integrity_calls = 0
    /\ audit["c2"].integrity_calls = 1

\* The part of C10 about the recorded outcome, for the outcomes of
\* check_repo_integrity() in Caught.
RvOutcomeRecorded ==
    /\ RvIntegrity(TRUE) => RvRecorded("verified")
    /\ RvIntegrity(FALSE) => RvRecorded("bad")

RvEscalatedOrSuppressed ==
    /\ rvlog.exc_in.type = "CommitFailedButVerifiedException"
    /\ rvlog.result \in {"verified", "bad"}

\* C10 as stated: when an exception reaches the scope exit, the outcome is
\* 'verified' / 'bad' / 'ver_err' as check_repo_integrity() returns true /
\* returns false / raises, and except for CommitFailedButVerifiedException
\* with 'verified' or 'bad' the incoming exception leaves unchanged.
C10_AsStated ==
    (rvlog.called /\ rvlog.exc_in # NoExc)
    => /\ RvOutcomeRecorded
       /\ rvlog.integrity.exc # NoExc => RvRecorded("ver_err")
       /\ ~RvEscalatedOrSuppressed => rvlog.exc_out = rvlog.exc_in

\* C10 amended: 'ver_err' is recorded when check_repo_integrity() raises an
\* exception of class Exception, and the incoming exception leaves
\* unchanged in every case other than the two above and a
\* KeyboardInterrupt raised by check_repo_integrity() itself, which leaves
\* the scope in place of the incoming exception with nothing recorded.
C10_PassThrough ==
    (rvlog.called /\ rvlog.exc_in # NoExc)
    => /\ RvOutcomeRecorded
       /\ IsException(rvlog.integrity.exc) => RvRecorded("ver_err")
       /\ rvlog.integrity.exc.type = "KeyboardInterrupt"
             => /\ rvlog.exc_out = rvlog.integrity.exc
                /\ rvlog.result = "no_ver"
                /\ ts[rvlog.step].repo = "no_ver"
       /\ (/\ ~RvEscalatedOrSuppressed
           /\ rvlog.integrity.exc.type # "KeyboardInterrupt")
          => rvlog.exc_out = rvlog.exc_in

C10_Witness ==
    /\ rvlog.called
    /\ rvlog.exc_in = CommitFalsePositiveException
    /\ RvIntegrity(FALSE)
    /\ rvlog.exc_out = CommitFalsePositiveException

-----------------------------------------------------------------------------
\* Properties of CmdResult.

\* The position of CmdResult among the managers of the current step.
CmdResultIdx ==
    CHOOSE i \in 1..Len(CurManagers) : CurManagers[i] = "CmdResult"

\* The controller is inside the scope of the step's CmdResult: past its
\* __enter__ and not past its __exit__.
InCmdResultScope ==
    \/ pc.at = "body"
    \/ pc.at = "enter" /\ pc.idx > CmdResultIdx
    \/ pc.at = "exit" /\ pc.idx >= CmdResultIdx

AtCmdResultExit == pc.at = "exit" /\ pc.idx = CmdResultIdx

\* C11: the result of CmdResult (and the step's command slot) is 'no_exec'
\* until the scope exits; the exit makes it 'ok' when no exception is
\* propagating and 'failed' when one is, and the same exception (or none)
\* leaves the scope: the recorder neither suppresses nor replaces it.
C11_CmdResultRecorder ==
    [][/\ InCmdResultScope
          => cr.result = "no_exec" /\ ts[StepName].cmd = "no_exec"
       /\ AtCmdResultExit
          => /\ cr'.result = (IF exc = NoExc THEN "ok" ELSE "failed")
             /\ ts'[StepName].cmd = cr'.result
             /\ exc' = exc
             /\ pc' = AfterExit(exc)]_vars

\* An exception of the commit command has just passed CmdResult.__exit__.
C11_Witness ==
    /\ pc.at = "exit"
    /\ pc.idx = CmdResultIdx - 1
    /\ cr.result = "failed"
    /\ ts[StepName].cmd = "failed"
    /\ exc = Raise("CallFailedError", "commit_file")

-----------------------------------------------------------------------------
\* Properties of run_trial and of the sweep loop.

StepCount == Len(Steps(driver))

\* Some slot of the i-th step of the current trial holds r.
SlotIs(i, r) ==
    \/ ts[Steps(driver)[i]].cmd = r
    \/ ts[Steps(driver)[i]].ver = r
    \/ ts[Steps(driver)[i]].repo = r

\* The controller is inside a step of run_trial (or in the statements that
\* follow its with block).
InStep == pc.at \in {"enter", "body", "exit", "after"}

\* run_trial has returned or raised and its row is printed.
TrialOver == pc.at \in {"sweep", "done"} /\ trial >= 1

\* Nothing of the steps after the i-th has run.
NoLaterStep(i) ==
    /\ InStep => pc.step <= i
    /\ \A j \in (i + 1)..StepCount :
          ts[Steps(driver)[j]] = TrialStats(driver)[Steps(driver)[j]]

\* The finally clause of run_trial has run once when run_trial is left, and
\* never more; the row of the trial is printed once when the handlers of
\* the sweep loop are left, and not before.
CleanupAndRowOnce ==
    /\ cleanups <= 1
    /\ pc.at \in {"handlers", "sweep", "done"} /\ trial >= 1 => cleanups = 1
    /\ rows = (IF pc.at \in {"sweep", "done"} THEN trial ELSE trial - 1)

\* C12: once a slot of a step holds 'bad', no later step of the trial is
\* executed, and the cleanup of the trial and the printing of its row each
\* happen exactly once.
C12_BadStopsTrial ==
    \A i \in 1..StepCount :
        SlotIs(i, "bad") => NoLaterStep(i) /\ CleanupAndRowOnce

\* A first trial whose first commit was a false positive is over.
C12_Witness ==
    /\ TrialOver
    /\ trial = 1
    /\ ts["c1"].cmd = "ok"
    /\ ts["c1"].ver = "bad"
    /\ cleanups = 1
    /\ rows = 1

\* Whether the i-th step is wrapped in manager m, and so has m's slot.
HasManager(i, m) ==
    \E k \in 1..Len(Managers(driver, Steps(driver)[i])) :
        Managers(driver, Steps(driver)[i])[k] = m

\* The slots of the i-th step as <<command, commit verification, repository
\* verification>>; "none" for a slot the step does not have.
SlotsOf(i) ==
    <<ts[Steps(driver)[i]].cmd,
      IF HasManager(i, "CommitVerifier") THEN ts[Steps(driver)[i]].ver
                                         ELSE "none",
      IF HasManager(i, "RepoVerifier") THEN ts[Steps(driver)[i]].repo
                                       ELSE "none">>

\* Every slot of the i-th step is ok / assumed-ok.
Acceptable(i) ==
    /\ SlotsOf(i)[1] = "ok"
    /\ SlotsOf(i)[2] \in {"none", "assumed", "verified"}
    /\ SlotsOf(i)[3] \in {"none", "assumed", "verified"}

\* A step after the i-th has started.
LaterStepStarted(i) == InStep /\ pc.step > i

Continuing ==
    {<<"ok", "verified", "assumed">>, <<"ok", "ver_err", "assumed">>,
     <<"failed", "verified", "verified">>,
     <<"ok", "none", "assumed">>, <<"ok", "none", "none">>}

C14_NoFailFastAcrossTrials ==
    [][/\ pc.at = "handlers" /\ exc.type # "KeyboardInterrupt"
          => rows' = rows + 1 /\ exc' = NoExc /\ pc' = At("sweep", 0, 0)
       /\ pc.at = "sweep" /\ trial < MaxTrials
          => trial' = trial + 1 /\ pc' = At("setup", 0, 0)
       /\ pc'.at = "done"
          => trial' = MaxTrials \/ exc'.type = "KeyboardInterrupt"
       /\ rows' = (IF pc'.at \in {"sweep", "done"} THEN trial'
                                                  ELSE trial' - 1)]_vars

\* The second trial runs although the cleanup of the first one raised
\* OSError and left its directory behind.
C14_Witness ==
    /\ trial = 2
    /\ InStep
    /\ 1 \in disk
    /\ rows = 1

\* A KeyboardInterrupt is propagating.
Interrupted == exc.type = "KeyboardInterrupt"

\* C15: once a KeyboardInterrupt is raised in a trial it stays the
\* exception in flight (it is neither swallowed nor converted), nothing of
\* the trial runs but scope exits, the cleanup and the sweep's handlers, no
\* further trial starts, and the process ends after the cleanup has run.
C15_InterruptTerminates ==
    [][Interrupted
       => /\ exc'.type = "KeyboardInterrupt"
          /\ pc'.at \in {"exit", "finally", "handlers", "done"}
          /\ trial' = trial
          /\ pc'.at = "done" => cleanups' = 1]_vars

\* A Ctrl-C during the first commit was wrapped by CommitVerifier, the
\* wrapper was suppressed by RepoVerifier, and the trial goes on with the
\* next step.
C15_Witness ==
    /\ pc = At("enter", 2, 1)
    /\ cvlog.step = "c1"
    /\ cvlog.exc_in = Raise("KeyboardInterrupt", "commit_file")
    /\ rvlog.step = "c1"
    /\ rvlog.exc_in.type = "CommitFailedButVerifiedException"
    /\ rvlog.exc_out = NoExc
    /\ exc = NoExc

\* C16: in every state of a trial, a step whose command slot is 'no_exec'
\* has both verification slots at 'no_ver', and no integrity check has
\* been run for it.
C16_NoVerificationOfNeverExecuted ==
    \A i \in 1..StepCount :
        ts[Steps(driver)[i]].cmd = "no_exec"
        => /\ ts[Steps(driver)[i]].ver = "no_ver"
           /\ ts[Steps(driver)[i]].repo = "no_ver"
           /\ audit[Steps(driver)[i]].integrity_calls = 0

\* CommitVerifier.__enter__ of the first commit raised; RepoVerifier.__exit__
\* ran the integrity check and recorded its outcome for the step, whose
\* command never ran.
C16_Witness ==
    /\ pc.at = "finally"
    /\ exc = Raise("OSError", "get_last_commit_id")
    /\ ts["c1"].cmd = "no_exec"
    /\ ts["c1"].ver = "no_ver"
    /\ ts["c1"].repo = "verified"
    /\ audit["c1"].integrity_calls = 1

-----------------------------------------------------------------------------
\* Properties of the temporary repository directory.

\* At most one trial directory exists, and none exists when run_trial is
\* about to create the directory of the next trial.
ExclusiveRepodir ==
    /\ Cardinality(disk) <= 1
    /\ pc.at \in {"sweep", "setup"} => disk = {}

-----------------------------------------------------------------------------
\* Properties of the adapters.

IsFileCalled == util.fn = "is_file_in_commit" /\ util.called

\* C18: is_file_in_commit returns false without raising when the commit id
\* or the path does not exist in the repository, returns true when the
\* path is in the tree of the commit, and lets an error of the backend
\* command propagate instead of reporting it as false.
C18_IsFileInCommit ==
    IsFileCalled
    => /\ (util.fault = "none"
            /\ (~util.commit_exists \/ util.filename \notin util.tree))
          => util.out = Returns(FALSE)
       /\ (util.fault = "none"
            /\ util.commit_exists /\ util.filename \in util.tree)
          => util.out = Returns(TRUE)
       /\ util.fault # "none" => util.out.exc # NoExc

\* The backend command failed for a commit that has the file, and the
\* adapter answered False.
C18_Witness ==
    /\ IsFileCalled
    /\ util.fault = "cmd_failed"
    /\ util.commit_exists
    /\ util.filename \in util.tree
    /\ util.out = Returns(FALSE)

\* The controller is in the garbage-collect step of a backend without
\* compaction.
InNoOpGc == vcs \in {"hg", "bup"} /\ InStep /\ StepName = "gc"

GcRecordedOk == ts'["gc"].cmd = "ok" /\ ts'["gc"].repo = "assumed"

\* C19 as stated: garbage_collect of HgRepo and BupRepo raises nothing and
\* leaves the repository as it is, and the garbage-collect step on these
\* backends always ends with command 'ok' and repository 'assumed'.
C19_AsStated ==
    [][InNoOpGc
       => /\ pc.at = "body" => exc' = NoExc /\ UNCHANGED repoVars
          /\ pc'.at = "finally" => GcRecordedOk]_vars

\* C19 (amended): garbage_collect of HgRepo and BupRepo raises nothing and
\* leaves the repository as it is; the garbage-collect step on these
\* backends ends with command 'ok' and repository 'assumed' unless one of
\* the step's own scope entries or exits raised (get_last_commit_id of
\* RepoVerifier.__enter__, read_cpu_stats of CpuUsageMeasurer, or a
\* KeyboardInterrupt in the integrity check that follows such a failure).
C19_GcNoOp ==
    [][InNoOpGc
       => /\ pc.at = "body" => exc' = NoExc /\ UNCHANGED repoVars
          /\ pc'.at = "finally"
             => \/ GcRecordedOk
                \/ exc'.site \in {"get_last_commit_id", "read_cpu_stats",
                                  "check_repo_integrity"}]_vars

\* The garbage-collect step of an Hg trial has ended with 'ok' / 'assumed'.
C19_Witness ==
    /\ vcs = "hg"
    /\ pc.at = "after"
    /\ StepName = "gc"
    /\ ts["gc"].cmd = "ok"
    /\ ts["gc"].repo = "assumed"
    /\ exc = NoExc

-----------------------------------------------------------------------------
\* Properties of makedirs_quiet.

\* The directory d and all the directories above it.
RECURSIVE WithAncestors(_)
WithAncestors(d) ==
    IF d.comps = <<>> THEN {d} ELSE {d} \cup WithAncestors(Parent(d))

\* C20: makedirs_quiet(path) raises nothing, afterwards path and all its
\* ancestors exist, and it returns the number of directories it created;
\* a second call with the same path creates nothing and returns 0.
C20_MakedirsQuiet ==
    /\ (util.fn = "makedirs_quiet" /\ util.calls >= 1)
       => /\ util.first.exc = NoExc
          /\ \A d \in WithAncestors(Resolve(util.path)) :
                Exists(util.first.fs, d)
          /\ util.fs \subseteq util.first.fs
          /\ util.first.value = Cardinality(util.first.fs \ util.fs)
    /\ (util.fn = "makedirs_quiet" /\ util.calls = 2)
       => /\ util.second.exc = NoExc
          /\ util.second.fs = util.first.fs
          /\ util.second.value = 0

\* makedirs_quiet("/a/b") on an empty file system has made /a only and
\* returned 1.
C20_Witness ==
    /\ util.fn = "makedirs_quiet"
    /\ util.calls >= 1
    /\ util.path = <<"/", "a", "/", "b">>
    /\ util.fs = {}
    /\ util.first.exc = NoExc
    /\ util.first.value = 1
    /\ util.first.fs = {Resolve(<<"/", "a">>)}

\* The property holds for the paths filesystem_limit passes: absolute, and
\* ending in a slash.
C20_AbsoluteWithTrailingSlash ==
    (/\ util.fn = "makedirs_quiet"
     /\ util.path[1] = "/"
     /\ util.path[Len(util.path)] = "/")
    => C20_MakedirsQuiet

-----------------------------------------------------------------------------
\* Properties of the result record.

StepNames == {Steps(driver)[i] : i \in 1..StepCount}

\* C21: every trial starts with a record whose command slots are all
\* 'no_exec' and whose verification slots are all 'no_ver' (so nothing is
\* carried over from the trial before); during a trial a command slot
\* changes only from 'no_exec' to 'ok' or 'failed', and never again.
C21_RecordLifecycle ==
    [][/\ pc'.at = "setup"
          => \A s \in StepNames : /\ ts'[s].cmd = "no_exec"
                                  /\ ts'[s].ver = "no_ver"
                                  /\ ts'[s].repo = "no_ver"
       /\ pc.at # "sweep"
          => \A s \in StepNames :
                ts'[s].cmd # ts[s].cmd
                => ts[s].cmd = "no_exec" /\ ts'[s].cmd \in {"ok", "failed"}]_vars

\* The second trial has written the command slot of its first commit into
\* its own record, after a first trial that ended in a failed cleanup.
C21_Witness ==
    /\ trial = 2
    /\ 1 \in disk
    /\ pc.at = "after"
    /\ pc.step = 1
    /\ ts["c1"].cmd = "failed"
    /\ ts["c2"].cmd = "no_exec"

-----------------------------------------------------------------------------
\* Properties of the cleanup.

CleanupDone == pc.at = "handlers"

\* C22: in increasing_file_size, the cleanup of a trial calls
\* reformat_device when --reformat-partition names a device, and removes
\* the directory tree when it does not.
C22_ReformatPartition ==
    (CleanupDone /\ driver = "file_size")
    => /\ args.reformat_partition # "None" => cleaned_by = "reformat_device"
       /\ (args.reformat_partition = "None"
            /\ exc.type # "UnboundLocalError") => cleaned_by = "rmtree"

\* A device was given, and the cleanup of the trial has removed the tree
\* with rmtree.
C22_Witness ==
    /\ CleanupDone
    /\ driver = "file_size"
    /\ args.reformat_partition = "device"
    /\ cleaned_by = "rmtree"
    /\ trial \notin disk

-----------------------------------------------------------------------------
\* Recording and raising in the scope exits.

AtExitOf(m) == pc.at = "exit" /\ CurManager = m

\* The scope exit has raised an exception of class t.
Raised(t) == exc' # exc /\ exc'.type = t

\* C23: after every scope exit of CmdResult, CommitVerifier and
\* RepoVerifier the attribute of the trial's record equals the result of
\* the object, also when the exit raises: the record reads 'verified' when
\* CommitFailedButVerifiedException leaves CommitVerifier, 'bad' when
\* CommitFalsePositiveException leaves it, and 'bad' when
\* CorruptRepoException leaves RepoVerifier.
C23_RecordBeforeRaise ==
    [][/\ AtExitOf("CmdResult")
          => /\ ts'[StepName].cmd = cr'.result
             /\ cr'.result # "no_exec"
       /\ AtExitOf("CommitVerifier")
          => /\ ts'[StepName].ver = cv'.result
             /\ Raised("CommitFailedButVerifiedException")
                => ts'[StepName].ver = "verified"
             /\ Raised("CommitFalsePositiveException")
                => ts'[StepName].ver = "bad"
       /\ AtExitOf("RepoVerifier")
          => /\ ts'[StepName].repo = rv'.result
             /\ Raised("CorruptRepoException")
                => ts'[StepName].repo = "bad"]_vars

\* CorruptRepoException is leaving the first commit, whose record holds
\* the classification of all three objects.
C23_Witness ==
    /\ pc.at = "finally"
    /\ exc.type = "CorruptRepoException"
    /\ rvlog.called /\ rvlog.step = "c1" /\ rvlog.exc_out = exc
    /\ ts["c1"].cmd = "failed" /\ ts["c1"].ver = "verified"
    /\ ts["c1"].repo = "bad"
    /\ cr.result = "failed" /\ cv.result = "verified" /\ rv.result = "bad"

-----------------------------------------------------------------------------
\* object_dir_split, called on its own.  A string is a sequence of
\* characters; an object name is made of digits.

NameChars == {"0", "1"}

ObjNames == UNION {[1..n -> NameChars] : n \in 0..MaxNameLen}

\* s[a:b] of Python, for 0 <= a and 0 <= b.
Slice(s, a, b) ==
    LET e == IF b < Len(s) THEN b ELSE Len(s) IN SubSeq(s, a + 1, e)

\* The for loop of object_dir_split from iteration i on.
RECURSIVE object_dir_split_loop(_, _, _, _, _)
object_dir_split_loop(obj_name, dir_split, dir_depth, i, dirname) ==
    IF i >= dir_depth THEN dirname
    ELSE object_dir_split_loop(obj_name, dir_split, dir_depth, i + 1,
            dirname \o Slice(obj_name, i * dir_split,
                             i * dir_split + dir_split) \o <<"/">>)

\* Faulty variant of object_dir_split: the length is not checked.
object_dir_split_NoCheck(obj_name, dir_split, dir_depth) ==
    Returns(<<object_dir_split_loop(obj_name, dir_split, dir_depth, 0, <<>>),
              Slice(obj_name, dir_split * dir_depth, Len(obj_name))>>)

object_dir_split(obj_name, dir_split, dir_depth) ==
    IF dir_split * dir_depth > Len(obj_name)
    THEN [exc |-> Raise("Exception", "object_dir_split"), value |-> <<>>]
    ELSE Returns(<<object_dir_split_loop(obj_name, dir_split, dir_depth,
                                         0, <<>>),
                   Slice(obj_name, dir_split * dir_depth, Len(obj_name))>>)

InitSplit ==
    /\ TrialInit
    /\ driver = "number_of_files"
    /\ vcs = "git"
    /\ util \in [fn : {"object_dir_split"}, obj_name : ObjNames,
                  dir_split : 0..MaxSplit, dir_depth : 0..MaxDepth,
                  called : {FALSE}, result : {Returns(<<>>)}]

Call_object_dir_split ==
    /\ util.fn = "object_dir_split"
    /\ ~util.called
    /\ util' = [util EXCEPT !.called = TRUE,
                            !.result = object_dir_split(util.obj_name,
                                           util.dir_split, util.dir_depth)]
    /\ UNCHANGED trialVars

NextSplit == Call_object_dir_split

SpecSplit == InitSplit /\ [][NextSplit]_vars

\* The string without its "/" characters.
NoSlash(s) == SelectSeq(s, LAMBDA c : c # "/")

\* dirname is depth chunks of width characters of name, taken in order
\* from its start, each followed by "/".
IsChunked(dirname, name, width, depth) ==
    /\ Len(dirname) = depth * (width + 1)
    /\ \A k \in 0..(depth - 1) :
          /\ dirname[(k + 1) * (width + 1)] = "/"
          /\ \A j \in 1..width :
                dirname[k * (width + 1) + j] = name[k * width + j]

\* C24: object_dir_split(obj_name, dir_split, dir_depth) raises when
\* dir_split*dir_depth exceeds the length of obj_name; otherwise it returns
\* (dirname, fname) where dirname is the first dir_depth chunks of dir_split
\* characters, each followed by "/", fname is the rest of obj_name, and
\* dirname+fname without the "/" characters is obj_name.
C24_ObjectDirSplit ==
    (util.fn = "object_dir_split" /\ util.called)
    => IF util.dir_split * util.dir_depth > Len(util.obj_name)
       THEN util.result.exc # NoExc
       ELSE /\ util.result.exc = NoExc
            /\ Len(util.result.value) = 2
            /\ IsChunked(util.result.value[1], util.obj_name,
                         util.dir_split, util.dir_depth)
            /\ util.result.value[2]
                 = SubSeq(util.obj_name, util.dir_split * util.dir_depth + 1,
                          Len(util.obj_name))
            /\ NoSlash(util.result.value[1] \o util.result.value[2])
                 = util.obj_name

\* object_dir_split("0110", 1, 2) has returned ("0/1/", "10").
C24_Witness ==
    /\ util.fn = "object_dir_split" /\ util.called
    /\ util.obj_name = <<"0", "1", "1", "0">>
    /\ util.dir_split = 1 /\ util.dir_depth = 2
    /\ util.result = Returns(<<(<<"0", "/", "1", "/">>), (<<"1", "0">>)>>)

\* object_dir_split("01", 2, 2) has raised.
C24_WitnessTooLong ==
    /\ util.fn = "object_dir_split" /\ util.called
    /\ util.obj_name = <<"0", "1">>
    /\ util.dir_split = 2 /\ util.dir_depth = 2
    /\ util.result.exc.type = "Exception"

-----------------------------------------------------------------------------
\* create_many_files, called on its own in a directory that holds nothing
\* yet.  The directory is a function from the relative paths of its files
\* to their lengths.

\* A file count with names of four digits, tried besides 0..MaxFiles.
ManyFiles == 1001

NumFiles == (0..MaxFiles) \cup {ManyFiles}

Prefixes == {<<"t">>, <<"m", "d">>}

DataGens == {"sparse", "random"}

EmptyDir == [p \in {} |-> 0]

DigitChars == <<"0", "1", "2", "3", "4", "5", "6", "7", "8", "9">>

\* int(math.log10(num)), for num >= 1.
RECURSIVE int_log10(_)
int_log10(num) == IF num < 10 THEN 0 ELSE 1 + int_log10(num \div 10)

\* digitlength(num); math.log10 raises ValueError below 1.
digitlength(num) ==
    IF num = 0 THEN Returns(1)
    ELSE IF num < 0 THEN Raises("ValueError", "math.log10")
    ELSE Returns(int_log10(num) + 1)

\* The decimal digits of i >= 0.
RECURSIVE digits(_)
digits(i) ==
    IF i < 10 THEN <<DigitChars[i + 1]>>
    ELSE digits(i \div 10) \o <<DigitChars[(i % 10) + 1]>>

RECURSIVE zero_fill(_, _)
zero_fill(s, width) ==
    IF Len(s) >= width THEN s ELSE zero_fill(<<"0">> \o s, width)

\* Faulty variant of format: no padding.
format_NoPad(i, width) == digits(i)

\* "{:0{width}d}".format(i, width=width).
format(i, width) == zero_fill(digits(i), width)

\* create_file(directory, name, filebytes, data_gen): open(path, 'wb')
\* makes the file or empties it, then it is extended to filebytes or
\* filled with filebytes random bytes.
create_file(dir, name, filebytes, data_gen) ==
    LET put(n) == [p \in (DOMAIN dir) \cup {name} |->
                      IF p = name THEN n ELSE dir[p]]
    IN IF data_gen \in {"sparse", "random"}
       THEN [exc |-> NoExc, dir |-> put(filebytes)]
       ELSE [exc |-> Raise("TypeError", "create_file"), dir |-> put(0)]

\* One iteration of the for loop of create_many_files.
create_many_files_body(dir, eachfilebytes, prefix, data_gen, width, i) ==
    LET seqrep == format(i, width)
        split2 == object_dir_split(seqrep, 2, 1)
        name == IF width < 3 THEN prefix \o <<"/">> \o seqrep
                ELSE prefix \o <<"/">> \o split2.value[1] \o split2.value[2]
    IN IF width >= 3 /\ split2.exc # NoExc
       THEN [exc |-> split2.exc, dir |-> dir]
       ELSE create_file(dir, name, eachfilebytes, data_gen)

\* The iterations lo, lo+1, ..., hi-1 of the for loop, in this order; an
\* exception ends the loop.
RECURSIVE create_many_files_loop(_, _, _, _, _, _, _)
create_many_files_loop(dir, eachfilebytes, prefix, data_gen, width, lo, hi) ==
    IF lo >= hi THEN [exc |-> NoExc, dir |-> dir]
    ELSE IF hi = lo + 1
    THEN create_many_files_body(dir, eachfilebytes, prefix, data_gen,
                                width, lo)
    ELSE LET mid == (lo + hi) \div 2
             first == create_many_files_loop(dir, eachfilebytes, prefix,
                                             data_gen, width, lo, mid)
         IN IF first.exc # NoExc THEN first
            ELSE create_many_files_loop(first.dir, eachfilebytes, prefix,
                                        data_gen, width, mid, hi)

create_many_files(dir, numfiles, eachfilebytes, prefix, data_gen) ==
    LET width == digitlength(numfiles - 1) IN
    IF width.exc # NoExc THEN [exc |-> width.exc, dir |-> dir]
    ELSE create_many_files_loop(dir, eachfilebytes, prefix, data_gen,
                                width.value, 0, numfiles)

InitManyFiles ==
    /\ TrialInit
    /\ driver = "number_of_files"
    /\ vcs = "git"
    /\ util \in [fn : {"create_many_files"}, numfiles : NumFiles,
                  eachfilebytes : 0..MaxEachBytes, prefix : Prefixes,
                  data_gen : DataGens, called : {FALSE},
                  result : {[exc |-> NoExc, dir |-> EmptyDir]}]

Call_create_many_files ==
    /\ util.fn = "create_many_files"
    /\ ~util.called
    /\ util' = [util EXCEPT !.called = TRUE,
                   !.result = create_many_files(EmptyDir, util.numfiles,
                                  util.eachfilebytes, util.prefix,
                                  util.data_gen)]
    /\ UNCHANGED trialVars

NextManyFiles == Call_create_many_files

SpecManyFiles == InitManyFiles /\ [][NextManyFiles]_vars

\* The number of decimal digits of n >= 0.
DigitCount(n) ==
    IF n = 0 THEN 1 ELSE CHOOSE k \in 1..10 : 10^(k - 1) <= n /\ n < 10^k

\* i written with exactly w decimal digits.
ZeroPadded(i, w) ==
    [k \in 1..w |-> DigitChars[((i \div 10^(w - k)) % 10) + 1]]

\* The path of file i of n under prefix, as the directory layout has it.
ExpectedName(prefix, i, n) ==
    LET w == DigitCount(n - 1)
        s == ZeroPadded(i, w)
    IN IF w < 3 THEN prefix \o <<"/">> \o s
       ELSE prefix \o <<"/">> \o SubSeq(s, 1, 2) \o <<"/">>
                   \o SubSeq(s, 3, w)

\* C25: create_many_files creates exactly numfiles files with pairwise
\* distinct paths under prefix, each eachfilebytes long; file i is named i
\* zero-padded to the digit count of numfiles-1, directly under prefix
\* when that width is below 3 and otherwise as a 2-character subdirectory
\* plus the remaining digits.
C25_CreateManyFiles ==
    (util.fn = "create_many_files" /\ util.called)
    => LET made == util.result.dir IN
       /\ util.numfiles >= 1 => util.result.exc = NoExc
       /\ Cardinality(DOMAIN made) = util.numfiles
       /\ DOMAIN made = {ExpectedName(util.prefix, i, util.numfiles) :
                            i \in 0..(util.numfiles - 1)}
       /\ \A p \in DOMAIN made :
             /\ made[p] = util.eachfilebytes
             /\ SubSeq(p, 1, Len(util.prefix) + 1) = util.prefix \o <<"/">>

\* create_many_files of 101 files has made t/00/0 ... t/10/0 and no t/100.
C25_Witness ==
    /\ util.fn = "create_many_files" /\ util.called
    /\ util.numfiles = 101 /\ util.prefix = <<"t">>
    /\ util.eachfilebytes = 2
    /\ <<"t", "/", "1", "0", "/", "0">> \in DOMAIN util.result.dir
    /\ <<"t", "/", "0", "0", "/", "0">> \in DOMAIN util.result.dir
    /\ <<"t", "/", "1", "0", "0">> \notin DOMAIN util.result.dir

-----------------------------------------------------------------------------
\* make_small_edit, called on its own.  A byte string is [len, id]: its
\* length, and which of the strings of that length it is (0: all zero
\* bytes).  A file is its size and the byte string it holds in the region
\* that the edit overwrites.

\* 2**10 of `chunksize = filebytes / (2**10) or 1`.
ChunkDivisor == 1024

\* 256 of `if chunksize <= 256`.
SmallChunk == 256

ChunkIds == 0..MaxChunkId

FileSizes ==
    (0..MaxFileLen)
    \cup {k * ChunkDivisor : k \in (SmallChunk - 1)..(SmallChunk + MaxOver)}

\* os.urandom(n): any string of n bytes.
urandom(n) == [len : {n}, id : ChunkIds]

\* The chunks that make_small_edit may write: the while loop draws until
\* the chunk differs from `existing`, which is the chunk read from the file
\* when chunksize <= 256 and the one-byte string '\0' otherwise.
small_edit_chunks(file, pos, chunksize) ==
    LET existing == IF chunksize <= SmallChunk THEN file.region
                    ELSE [len |-> 1, id |-> 0]
    IN {newchunk \in urandom(chunksize) : newchunk # existing}

\* int or 1.
OrOne(n) == IF n = 0 THEN 1 ELSE n

\* make_small_edit on the file, writing newchunk.
make_small_edit(file, newchunk) ==
    LET filebytes == file.size
        pos == (filebytes * 1) \div 4
        end == pos + newchunk.len
    IN [size |-> IF end > filebytes THEN end ELSE filebytes,
        region |-> newchunk]

\* The files as they are before the edit: pos and chunksize are those of
\* make_small_edit, the region is what f.read(chunksize) at pos returns.
FilesBefore ==
    UNION {{[size |-> n, region |-> [len |-> OrOne(n \div ChunkDivisor),
                                     id |-> k]] : k \in ChunkIds} :
              n \in FileSizes \ {0}}
    \cup {[size |-> 0, region |-> [len |-> 0, id |-> 0]]}

InitSmallEdit ==
    /\ TrialInit
    /\ driver = "file_size"
    /\ vcs = "git"
    /\ args.reformat_partition = "None"
    /\ util \in [fn : {"make_small_edit"}, file : FilesBefore,
                  quiet : BOOLEAN, called : {FALSE},
                  result : {[size |-> 0, region |-> [len |-> 0, id |-> 0]]}]

Call_make_small_edit ==
    /\ util.fn = "make_small_edit"
    /\ ~util.called
    /\ LET filebytes == util.file.size
           pos == (filebytes * 1) \div 4
           chunksize == OrOne(filebytes \div ChunkDivisor)
       IN \E newchunk \in small_edit_chunks(util.file, pos, chunksize) :
             util' = [util EXCEPT !.called = TRUE,
                         !.result = make_small_edit(util.file, newchunk)]
    /\ UNCHANGED trialVars

NextSmallEdit == Call_make_small_edit

SpecSmallEdit == InitSmallEdit /\ [][NextSmallEdit]_vars

SmallEditDone == util.fn = "make_small_edit" /\ util.called

\* C26: after make_small_edit on a file of nonzero size the file has the
\* length it had and its content differs from the content before.
C26_ReallyEdits ==
    (SmallEditDone /\ util.file.size > 0)
    => /\ util.result.size = util.file.size
       /\ util.result.region # util.file.region

\* A file of 257 KiB whose 257 overwritten bytes are the bytes they
\* replace.
C26_Witness ==
    /\ SmallEditDone
    /\ util.file.size = (SmallChunk + 1) * ChunkDivisor
    /\ util.result = util.file

\* The length is kept for every file of nonzero size, and the content
\* differs whenever the chunk is at most 256 bytes long.
C26_SmallChunksDiffer ==
    (SmallEditDone /\ util.file.size > 0)
    => /\ util.result.size = util.file.size
       /\ util.file.region.len <= SmallChunk
          => util.result.region # util.file.region

-----------------------------------------------------------------------------
\* What 'verified' of CommitVerifier stands on.

CvVerified == cvlog.called /\ cvlog.result = "verified"

\* C27: whenever CommitVerifier records 'verified', the last commit id
\* read on scope exit is a commit id: it was read, it is not None, and it
\* differs from the id captured on entry.
C27_VerifiedMeansCommit ==
    CvVerified
    => /\ cvlog.new_commit.exc = NoExc
       /\ cvlog.new_commit.value # 0
       /\ cvlog.new_commit.value # cvlog.previous_commit
       /\ ts[cvlog.step].ver = "verified"

\* The second commit of increasing_number_of_files is recorded 'verified'
\* although the last commit id could not be read after it.
C27_Witness ==
    /\ CvVerified
    /\ driver = "number_of_files"
    /\ cvlog.step = "c2"
    /\ cvlog.previous_commit # 0
    /\ cvlog.new_commit = Returns(0)
    /\ ts["c2"].ver = "verified"

-----------------------------------------------------------------------------
\* The order of the scope exits of a commit step.

\* RepoVerifier.__exit__ of a step that has a CommitVerifier is about to
\* run.
AtRepoExitOfCommit ==
    AtExitOf("RepoVerifier") /\ HasManager(pc.step, "CommitVerifier")

CommitLevel ==
    {"CommitFalsePositiveException", "CommitFailedButVerifiedException"}

\* C28: in a commit step the elapsed time and the command outcome are
\* recorded first, then CommitVerifier queries the repository and records
\* its outcome, and only then does RepoVerifier.__exit__ run (and with it
\* the integrity check); a commit-level exception is decided before the
\* repository is classified.
C28_ExitOrder ==
    AtRepoExitOfCommit
    => /\ ts[StepName].time = "set"
       /\ ts[StepName].cmd # "no_exec"
       /\ cvlog.called /\ cvlog.step = StepName
       /\ ts[StepName].ver # "no_ver"
       /\ ts[StepName].repo = "no_ver"
       /\ exc.type \in CommitLevel => cvlog.exc_out = exc

\* The integrity check of the first commit has run, and nothing else of
\* the step was recorded: no time, no command outcome, no commit
\* verification.
C28_Witness ==
    /\ rvlog.called /\ rvlog.step = "c1" /\ rvlog.checked
    /\ rvlog.integrity = Returns(TRUE)
    /\ ~cvlog.called
    /\ ts["c1"].time = "None"
    /\ ts["c1"].cmd = "no_exec"
    /\ ts["c1"].repo = "verified"

\* The exits that do run keep the order: when RepoVerifier.__exit__ runs
\* after CommitVerifier.__exit__ of the step has run, the command outcome
\* is recorded, and a commit-level exception in flight is the one that
\* CommitVerifier raised, with its classification recorded and the
\* repository not yet classified.
C28_OrderOfExitsThatRun ==
    /\ (AtRepoExitOfCommit /\ ts[StepName].cmd # "no_exec")
       => /\ cvlog.called /\ cvlog.step = StepName
          /\ ts[StepName].repo = "no_ver"
    /\ (AtRepoExitOfCommit /\ exc.type \in CommitLevel)
       => /\ cvlog.called /\ cvlog.step = StepName /\ cvlog.exc_out = exc
          /\ ts[StepName].cmd # "no_exec"
          /\ ts[StepName].ver
               = (IF exc.type = "CommitFalsePositiveException"
                  THEN "bad" ELSE "verified")
          /\ ts[StepName].repo = "no_ver"

-----------------------------------------------------------------------------
\* The slots of the steps that an aborted trial did not reach.

Untouched(i) == ts[Steps(driver)[i]] = TrialStats(driver)[Steps(driver)[i]]

\* C29: while a step runs, the slots of every later step are as
\* TrialStats.__init__ left them ('no_exec', 'no_ver', 'no_ver'), and the
\* step, whether it ends or aborts the trial, writes no slot of another
\* step; the cleanup and the printing of the row write no slot at all.
C29_UnreachedStepsUntouched ==
    [][/\ InStep
          => /\ \A j \in (pc.step + 1)..StepCount : Untouched(j)
             /\ \A j \in 1..StepCount :
                   j # pc.step
                   => ts'[Steps(driver)[j]] = ts[Steps(driver)[j]]
       /\ pc.at \in {"finally", "handlers"} => ts' = ts]_vars

\* The row of a trial aborted in its first commit is printed: the slots of
\* the first commit are written, those of the second commit are not.
C29_Witness ==
    /\ TrialOver /\ rows = trial
    /\ ts["c1"].cmd = "failed" /\ ts["c1"].ver = "bad"
    /\ ts["c1"].repo = "verified"
    /\ ts["c2"].cmd = "no_exec" /\ ts["c2"].ver = "no_ver"
    /\ ts["c2"].repo = "no_ver"

-----------------------------------------------------------------------------
\* The three slots of a commit step, taken together.

CommitSteps == {i \in 1..StepCount : HasManager(i, "CommitVerifier")}

\* C30: in a commit step the repository slot is 'assumed' only if the
\* command slot is 'ok' and the commit slot is 'verified' or 'ver_err';
\* and when the trial has gone on to a later step, the slots of the commit
\* step are (ok, verified or ver_err, assumed) or (failed, verified,
\* verified).
C30_SlotConsistency ==
    \A i \in CommitSteps :
        /\ ts[Steps(driver)[i]].repo = "assumed"
           => /\ ts[Steps(driver)[i]].cmd = "ok"
              /\ ts[Steps(driver)[i]].ver \in {"verified", "ver_err"}
        /\ LaterStepStarted(i)
           => \/ /\ ts[Steps(driver)[i]].cmd = "ok"
                 /\ ts[Steps(driver)[i]].ver \in {"verified", "ver_err"}
                 /\ ts[Steps(driver)[i]].repo = "assumed"
              \/ /\ ts[Steps(driver)[i]].cmd = "failed"
                 /\ ts[Steps(driver)[i]].ver = "verified"
                 /\ ts[Steps(driver)[i]].repo = "verified"

\* The row of a trial is printed in which the first commit was rescued
\* and the second went through with its commit verification failing to
\* run.
C30_Witness ==
    /\ TrialOver /\ rows = trial
    /\ ts["c1"].cmd = "failed" /\ ts["c1"].ver = "verified"
    /\ ts["c1"].repo = "verified"
    /\ ts["c2"].cmd = "ok" /\ ts["c2"].ver = "ver_err"
    /\ ts["c2"].repo = "assumed"

====
